---- MODULE Spec2Model ----
(***************************************************************************)
(* A model of garmin-workouts: the workout domain model, the swim workout  *)
(* builder, the domain <-> wire converters, the JSON record store and the  *)
(* upload / sync orchestration.                                            *)
(*                                                                         *)
(* Conventions                                                             *)
(*   - An optional value (Python None | v) is the sequence <<>> or <<v>>.  *)
(*   - A string whose length matters (a workout name) is a record          *)
(*     [tag, len]: the first len characters of the text called tag.        *)
(*   - A free text (a description) is a sequence of tokens.                *)
(*   - The store is a function from the keys of the files that exist to    *)
(*     the workout each file holds.                                        *)
(***************************************************************************)
EXTENDS Integers, Sequences, FiniteSets, TLC

VARIABLES
    store,      \* WORKOUT_DIR: key |-> persisted Workout, for the files that exist
    client,     \* _garmin_client: "absent" or "present"
    tokenFile,  \* TOKEN_DIR/garth_tokens exists
    pc,         \* position of the request being served ("idle" between requests)
    req,        \* the request being served / last served: its arguments and locals
    result,     \* outcome of the last finished request
    calls,      \* calls made to the remote platform by the current/last request
    store0,     \* the store when the current/last request started
    ops,        \* number of requests started so far
    fnIn,       \* input of the pure function under study
    fnMid,      \* intermediate value (the wire form)
    fnOut,      \* its result
    fnPc,       \* position of the pure-function run
    self,       \* the SwimWorkoutBuilder the calls currently go to
    outer,      \* the builders whose repeat() is running steps_fn, innermost last
    bLog,       \* what was called on the builder so far
    built       \* the objects build() has returned since the builder last changed

vars == <<store, client, tokenFile, pc, req, result, calls, store0, ops,
          fnIn, fnMid, fnOut, fnPc, self, outer, bLog, built>>

storeVars == <<store, client, tokenFile, pc, req, result, calls, store0, ops>>
fnVars == <<fnIn, fnMid, fnOut, fnPc>>
bVars == <<self, outer, bLog, built>>

----------------------------------------------------------------------------
(* Optional values *)

None == <<>>
Some(v) == <<v>>
IsNone(o) == o = <<>>
Get(o, default) == IF o = <<>> THEN default ELSE o[1]

----------------------------------------------------------------------------
(* api/models.py and swim_workout.py: the enumerations *)

WARMUP == 1
COOLDOWN == 2
INTERVAL == 3
RECOVERY == 4
REST == 5
REPEAT == 6

ANY == 1
BACKSTROKE == 2
BREASTSTROKE == 3
BUTTERFLY == 4
FREESTYLE == 5
MIXED == 6
IM == 7

StepTypeIds == WARMUP..REPEAT
StrokeTypeIds == ANY..IM

NAME_MAX == 80
ZONE_MIN == 1
ZONE_MAX == 5
DEFAULT_POOL == 25
DEFAULT_REST == 30
BUTTON_REST == 30

\* Equipment flags, in the order add_step tests them, with their labels.
EquipmentOrder == <<"pull_buoy", "paddles", "fins", "kickboard", "snorkel">>
EquipmentLabel ==
    [pull_buoy |-> "PULL BUOY", paddles |-> "PADDLES", fins |-> "FINS",
     kickboard |-> "KICKBOARD", snorkel |-> "SNORKEL"]

----------------------------------------------------------------------------
(* api/models.py: the domain model *)

\* WorkoutStep(...)
WorkoutStep(id, step_type, stroke, distance_m, duration_seconds, zone, description, equipment) ==
    [kind |-> "step", id |-> id, step_type |-> step_type, stroke |-> stroke,
     distance_m |-> distance_m, duration_seconds |-> duration_seconds,
     zone |-> zone, description |-> description, equipment |-> equipment]

\* RepeatGroup(...): step_type is always REPEAT
RepeatGroup(id, iterations, steps) ==
    [kind |-> "group", id |-> id, step_type |-> REPEAT,
     iterations |-> iterations, steps |-> steps]

\* Workout(...)
Workout(id, name, pool_length, steps) ==
    [id |-> id, name |-> name, pool_length |-> pool_length, steps |-> steps]

IsGroup(s) == s.kind = "group"

\* Field constraints of WorkoutStep: distance_m >= 0, zone in 1..5 when present.
ValidStep(s) ==
    /\ s.kind = "step"
    /\ s.step_type \in StepTypeIds
    /\ s.stroke \in StrokeTypeIds
    /\ s.distance_m >= 0
    /\ (s.zone # None => (s.zone[1] >= ZONE_MIN /\ s.zone[1] <= ZONE_MAX))

\* Field constraints of RepeatGroup: iterations >= 1, steps: list[WorkoutStep].
ValidGroup(g) ==
    /\ g.kind = "group"
    /\ g.iterations >= 1
    /\ \A i \in 1..Len(g.steps) : ValidStep(g.steps[i])

ValidEntry(e) == IF IsGroup(e) THEN ValidGroup(e) ELSE ValidStep(e)

\* Field constraints of Workout / WorkoutCreate: name of at most 80 characters.
ValidName(name) == name.len <= NAME_MAX

ValidWorkout(w) ==
    /\ ValidName(w.name)
    /\ \A i \in 1..Len(w.steps) : ValidEntry(w.steps[i])

\* sum(s.distance_m for s in step.steps)
RECURSIVE SumDistance(_)
SumDistance(steps) ==
    IF steps = <<>> THEN 0
    ELSE Head(steps).distance_m + SumDistance(Tail(steps))

\* Workout.total_distance
RECURSIVE TotalDistanceOf(_)
TotalDistanceOf(steps) ==
    IF steps = <<>> THEN 0
    ELSE LET step == Head(steps)
             total == TotalDistanceOf(Tail(steps))
         IN  IF IsGroup(step)
               THEN SumDistance(step.steps) * step.iterations + total
               ELSE IF step.step_type # REST
                      THEN step.distance_m + total
                      ELSE total

total_distance(w) == TotalDistanceOf(w.steps)

\* WorkoutSummary(id, name, total_distance, step_count)
WorkoutSummary(w) ==
    [id |-> w.id, name |-> w.name, total_distance |-> total_distance(w),
     step_count |-> Len(w.steps)]

----------------------------------------------------------------------------
(* swim_workout.py: the wire step objects and SwimWorkoutBuilder.           *)
(* A wire step is one record shape for both leaf steps and repeat groups;   *)
(* a field the object or mapping does not carry is None.                    *)

\* garminconnect ExecutableStep as the builder fills it
ExecutableStep(stepOrder, stepTypeId, conditionTypeKey, endConditionValue, targetTypeKey, strokeTypeId, zoneNumber, description) ==
    [stepOrder |-> stepOrder, stepTypeId |-> Some(stepTypeId),
     conditionTypeKey |-> Some(conditionTypeKey),
     endConditionValue |-> endConditionValue,
     targetTypeKey |-> targetTypeKey, strokeTypeId |-> strokeTypeId,
     zoneNumber |-> zoneNumber, description |-> description,
     numberOfIterations |-> None, workoutSteps |-> <<>>]

\* garminconnect RepeatGroup as the builder fills it
GarminRepeatGroup(stepOrder, numberOfIterations, workoutSteps) ==
    [stepOrder |-> stepOrder, stepTypeId |-> Some(REPEAT),
     conditionTypeKey |-> Some("iterations"),
     endConditionValue |-> Some(numberOfIterations),
     targetTypeKey |-> "none", strokeTypeId |-> None,
     zoneNumber |-> None, description |-> None,
     numberOfIterations |-> Some(numberOfIterations),
     workoutSteps |-> workoutSteps]

\* name[:80]
Truncate(name) ==
    [tag |-> name.tag, len |-> IF name.len > NAME_MAX THEN NAME_MAX ELSE name.len]

\* SwimWorkoutBuilder.__init__
SwimWorkoutBuilder(name, pool_length) ==
    [name |-> Truncate(name), pool_length |-> pool_length, steps |-> <<>>,
     step_order |-> 0, estimated_duration |-> 0]

\* Faulty variant: the estimate is rounded up to the next whole second
EstimateSwimTimeCeil(distance_m) == (distance_m * 12 + 9) \div 10

\* SwimWorkoutBuilder._estimate_swim_time: int(distance_m * 1.2), truncating toward 0
estimate_swim_time(distance_m) ==
    IF distance_m >= 0 THEN (distance_m * 12) \div 10
    ELSE 0 - (((0 - distance_m) * 12) \div 10)

\* The common tail of warmup / cooldown / swim / rest / rest_until_button:
\* _next_order(), append the step, add to the duration estimate.
AppendStep(b, seconds, step) ==
    [b EXCEPT !.steps = Append(b.steps, [step EXCEPT !.stepOrder = b.step_order + 1]),
              !.step_order = b.step_order + 1,
              !.estimated_duration = b.estimated_duration + seconds]

\* SwimWorkoutBuilder.warmup
warmup(b, distance_m, stroke, description) ==
    AppendStep(b, estimate_swim_time(distance_m),
        ExecutableStep(0, WARMUP, "distance", Some(distance_m), "no.target",
                       Some(stroke), None, description))

\* SwimWorkoutBuilder.cooldown
cooldown(b, distance_m, stroke, description) ==
    AppendStep(b, estimate_swim_time(distance_m),
        ExecutableStep(0, COOLDOWN, "distance", Some(distance_m), "no.target",
                       Some(stroke), None, description))

\* "if zone": None and 0 are falsy
Truthy(o) == o # None /\ o[1] # 0

\* SwimWorkoutBuilder.swim
swim(b, distance_m, stroke, zone, description) ==
    AppendStep(b, estimate_swim_time(distance_m),
        ExecutableStep(0, INTERVAL, "distance", Some(distance_m),
                       IF Truthy(zone) THEN "heart.rate.zone" ELSE "no.target",
                       Some(stroke),
                       IF Truthy(zone) THEN zone ELSE None,
                       description))

\* SwimWorkoutBuilder.rest
rest(b, seconds, description) ==
    AppendStep(b, seconds,
        ExecutableStep(0, REST, "fixed.rest", Some(seconds), "no.target",
                       None, None, description))

\* SwimWorkoutBuilder.rest_until_button
rest_until_button(b, description) ==
    AppendStep(b, BUTTON_REST,
        ExecutableStep(0, REST, "lap.button", None, "no.target",
                       None, None, description))

\* "for i, step in enumerate(inner_builder.steps, 1): step.stepOrder = i"
Renumber(steps) == [i \in 1..Len(steps) |-> [steps[i] EXCEPT !.stepOrder = i]]

\* "inner_builder = SwimWorkoutBuilder(self.name, self.pool_length)": the fresh
\* builder that steps_fn fills
InnerBuilder(b) == SwimWorkoutBuilder(b.name, b.pool_length)

\* SwimWorkoutBuilder.repeat; inner_builder is InnerBuilder(b) after steps_fn
\* has run on it
repeat(b, times, inner_builder) ==
    [b EXCEPT !.steps = Append(b.steps,
                  GarminRepeatGroup(b.step_order + 1, times,
                                    Renumber(inner_builder.steps))),
              !.step_order = b.step_order + 1,
              !.estimated_duration =
                  b.estimated_duration + inner_builder.estimated_duration * times]

\* SwimWorkoutBuilder.repeat when the RepeatGroup constructor raises: the
\* duration was already added and _next_order() already called
repeat_raised(b, times, inner_builder) ==
    [b EXCEPT !.step_order = b.step_order + 1,
              !.estimated_duration =
                  b.estimated_duration + inner_builder.estimated_duration * times]

\* SwimWorkoutBuilder.build: the SwimmingWorkout object (and its mapping form)
build(b) ==
    [workoutId |-> None, workoutName |-> Some(b.name),
     sportTypeKey |-> Some("lap_swimming"),
     estimatedDurationInSecs |-> b.estimated_duration,
     workoutSegments |-> <<[segmentOrder |-> 1, workoutSteps |-> b.steps]>>,
     poolLength |-> Some(b.pool_length)]

----------------------------------------------------------------------------
(* api/services/workout_service.py: Domain -> Wire *)

\* eq_parts of add_step, for the flags from position i on
RECURSIVE EqParts(_, _)
EqParts(equipment, i) ==
    IF i > Len(EquipmentOrder) THEN <<>>
    ELSE (IF EquipmentOrder[i] \in equipment
            THEN <<EquipmentLabel[EquipmentOrder[i]]>> ELSE <<>>)
         \o EqParts(equipment, i + 1)

\* " + ".join(eq_parts)
RECURSIVE JoinPlus(_)
JoinPlus(parts) ==
    IF Len(parts) <= 1 THEN parts
    ELSE <<Head(parts), "+">> \o JoinPlus(Tail(parts))

\* desc of add_step: "[A + B] desc" when equipment is used
StepDescription(step) ==
    LET eq_parts == EqParts(step.equipment, 1)
        tagged == <<"[">> \o JoinPlus(eq_parts) \o <<"]">>
    IN  IF eq_parts = <<>> THEN step.description
        ELSE IF step.description # None /\ step.description[1] # <<>>
               THEN Some(tagged \o step.description[1])
               ELSE Some(tagged)

\* "step.duration_seconds or 30"
RestSeconds(step) ==
    IF Truthy(step.duration_seconds) THEN step.duration_seconds[1] ELSE DEFAULT_REST

\* workout_to_garmin_dict.add_step
add_step(b, step) ==
    LET stroke == IF step.stroke \in StrokeTypeIds THEN step.stroke ELSE FREESTYLE
        desc == StepDescription(step)
    IN  IF step.step_type = WARMUP THEN warmup(b, step.distance_m, stroke, desc)
        ELSE IF step.step_type = COOLDOWN THEN cooldown(b, step.distance_m, stroke, desc)
        ELSE IF step.step_type = REST THEN rest(b, RestSeconds(step), desc)
        ELSE swim(b, step.distance_m, stroke, step.zone, desc)

\* make_repeat_fn(repeat_steps): "for s in repeat_steps: add_step(b, s)"
RECURSIVE AddSteps(_, _)
AddSteps(b, repeat_steps) ==
    IF repeat_steps = <<>> THEN b
    ELSE AddSteps(add_step(b, Head(repeat_steps)), Tail(repeat_steps))

\* "for step in workout.steps" of workout_to_garmin_dict
RECURSIVE AddEntries(_, _)
AddEntries(b, steps) ==
    IF steps = <<>> THEN b
    ELSE LET step == Head(steps)
         IN  AddEntries(
                 IF IsGroup(step)
                   THEN repeat(b, step.iterations, AddSteps(InnerBuilder(b), step.steps))
                   ELSE add_step(b, step),
                 Tail(steps))

\* workout_to_garmin_dict
workout_to_garmin_dict(workout) ==
    build(AddEntries(SwimWorkoutBuilder(workout.name, workout.pool_length), workout.steps))

----------------------------------------------------------------------------
(* api/services/workout_service.py: Wire -> Domain and Builder -> Domain.   *)
(* A conversion yields [ok, workout]: ok is FALSE when one of the pydantic  *)
(* constructors (WorkoutStep, RepeatGroup, Workout) or an int() raises.     *)

\* f"step-{step_counter}"
StepId(n) == <<"step", n>>

\* Equipment(): every flag False
NoEquipment == {}

\* Faulty variant: only "fixed.rest" is read as a duration
GarminLeafRestOnly(g_step, step_id) ==
    LET raw_type == Get(g_step.stepTypeId, INTERVAL)
        raw_stroke == Get(g_step.strokeTypeId, FREESTYLE)
        stroke_id == IF raw_stroke < 1 \/ raw_stroke > 7 THEN FREESTYLE ELSE raw_stroke
        step_type_id == IF raw_type < 1 \/ raw_type > 6 THEN INTERVAL ELSE raw_type
        end_condition == Get(g_step.conditionTypeKey, "distance")
        end_value == Get(g_step.endConditionValue, 100)
    IN  WorkoutStep(step_id, step_type_id, stroke_id,
                    IF end_condition = "distance" THEN end_value ELSE 0,
                    IF end_condition = "fixed.rest" THEN Some(end_value) ELSE None,
                    g_step.zoneNumber, g_step.description, NoEquipment)

\* Faulty variant: the codes are passed on as received
GarminLeafRaw(g_step, step_id) ==
    LET end_condition == Get(g_step.conditionTypeKey, "distance")
        end_value == Get(g_step.endConditionValue, 100)
    IN  WorkoutStep(step_id, Get(g_step.stepTypeId, INTERVAL),
                    Get(g_step.strokeTypeId, FREESTYLE),
                    IF end_condition = "distance" THEN end_value ELSE 0,
                    IF end_condition \in {"time", "fixed.rest"} THEN Some(end_value) ELSE None,
                    g_step.zoneNumber, g_step.description, NoEquipment)

\* The WorkoutStep that convert_garmin_step builds for a leaf wire step
GarminLeaf(g_step, step_id) ==
    LET raw_type == Get(g_step.stepTypeId, INTERVAL)
        raw_stroke == Get(g_step.strokeTypeId, FREESTYLE)
        stroke_id == IF raw_stroke < 1 \/ raw_stroke > 7 THEN FREESTYLE ELSE raw_stroke
        step_type_id == IF raw_type < 1 \/ raw_type > 6 THEN INTERVAL ELSE raw_type
        end_condition == Get(g_step.conditionTypeKey, "distance")
        end_value == Get(g_step.endConditionValue, 100)
    IN  WorkoutStep(step_id, step_type_id, stroke_id,
                    IF end_condition = "distance" THEN end_value ELSE 0,
                    IF end_condition \in {"time", "fixed.rest"} THEN Some(end_value) ELSE None,
                    g_step.zoneNumber, g_step.description, NoEquipment)

\* Faulty variant: the numbering does not continue after a group's children
RECURSIVE ConvertGarminStepsPerLevel(_, _)
ConvertGarminStepsPerLevel(g_steps, step_counter) ==
    IF g_steps = <<>> THEN [steps |-> <<>>, counter |-> step_counter]
    ELSE LET g_step == Head(g_steps)
             n == step_counter + 1
             inner == ConvertGarminStepsPerLevel(g_step.workoutSteps, n)
             isRepeat == Get(g_step.stepTypeId, INTERVAL) = REPEAT
             entry == IF isRepeat
                        THEN RepeatGroup(StepId(n), Get(g_step.numberOfIterations, 1),
                                         inner.steps)
                        ELSE GarminLeaf(g_step, StepId(n))
             others == ConvertGarminStepsPerLevel(Tail(g_steps), n)
         IN  [steps |-> <<entry>> \o others.steps, counter |-> others.counter]

\* garmin_to_workout.convert_garmin_step over a list of wire steps, threading
\* the shared step_counter: [steps, counter]
RECURSIVE ConvertGarminSteps(_, _)
ConvertGarminSteps(g_steps, step_counter) ==
    IF g_steps = <<>> THEN [steps |-> <<>>, counter |-> step_counter]
    ELSE LET g_step == Head(g_steps)
             n == step_counter + 1
             inner == ConvertGarminSteps(g_step.workoutSteps, n)
             isRepeat == Get(g_step.stepTypeId, INTERVAL) = REPEAT
             entry == IF isRepeat
                        THEN RepeatGroup(StepId(n), Get(g_step.numberOfIterations, 1),
                                         inner.steps)
                        ELSE GarminLeaf(g_step, StepId(n))
             after == IF isRepeat THEN inner.counter ELSE n
             others == ConvertGarminSteps(Tail(g_steps), after)
         IN  [steps |-> <<entry>> \o others.steps, counter |-> others.counter]

\* str(workoutId) of a remote workout id
Str(workoutId) ==
    CASE workoutId = 101 -> "101"
      [] workoutId = 102 -> "102"
      [] workoutId = 103 -> "103"
      [] workoutId = 104 -> "104"
      [] workoutId = 105 -> "105"
      [] OTHER -> "0"

UnnamedWorkout == [tag |-> "Unnamed Workout", len |-> 15]

\* garmin_to_workout
garmin_to_workout(garmin_workout) ==
    LET workout_id == IF garmin_workout.workoutId = None THEN ""
                      ELSE Str(garmin_workout.workoutId[1])
        name == Get(garmin_workout.workoutName, UnnamedWorkout)
        pool_length == Get(garmin_workout.poolLength, DEFAULT_POOL)
        segments == garmin_workout.workoutSegments
        steps == IF segments # <<>>
                   THEN ConvertGarminSteps(segments[1].workoutSteps, 0).steps
                   ELSE <<>>
        workout == Workout(workout_id, name, pool_length, steps)
    IN  [ok |-> ValidWorkout(workout), workout |-> workout]

\* The WorkoutStep that builder_to_workout.convert_step builds for a leaf step
BuilderLeaf(step, step_id) ==
    LET step_type_id == Get(step.stepTypeId, INTERVAL)
        stroke_id == Get(step.strokeTypeId, FREESTYLE)
    IN  WorkoutStep(step_id, step_type_id, stroke_id,
                    IF Truthy(step.endConditionValue) THEN step.endConditionValue[1] ELSE 0,
                    IF step_type_id = REST THEN step.endConditionValue ELSE None,
                    step.zoneNumber, step.description, NoEquipment)

\* int(step.endConditionValue) of a REST step raises when the value is None
BuilderLeafRaises(step) ==
    Get(step.stepTypeId, INTERVAL) = REST /\ step.endConditionValue = None

\* builder_to_workout.convert_step over a list of builder steps: [steps, counter, ok]
RECURSIVE ConvertBuilderSteps(_, _)
ConvertBuilderSteps(b_steps, step_counter) ==
    IF b_steps = <<>> THEN [steps |-> <<>>, counter |-> step_counter, ok |-> TRUE]
    ELSE LET step == Head(b_steps)
             n == step_counter + 1
             inner == ConvertBuilderSteps(step.workoutSteps, n)
             isRepeat == step.numberOfIterations # None
             entry == IF isRepeat
                        THEN RepeatGroup(StepId(n), step.numberOfIterations[1], inner.steps)
                        ELSE BuilderLeaf(step, StepId(n))
             after == IF isRepeat THEN inner.counter ELSE n
             fine == IF isRepeat THEN inner.ok ELSE ~BuilderLeafRaises(step)
             others == ConvertBuilderSteps(Tail(b_steps), after)
         IN  [steps |-> <<entry>> \o others.steps, counter |-> others.counter,
              ok |-> fine /\ others.ok]

\* builder_to_workout
builder_to_workout(workout_id, builder) ==
    LET conv == ConvertBuilderSteps(builder.steps, 0)
        workout == Workout(workout_id, builder.name, builder.pool_length, conv.steps)
    IN  [ok |-> conv.ok /\ ValidWorkout(workout), workout |-> workout]

----------------------------------------------------------------------------
(* Bounded inputs: the workouts a client can author *)

MaxSteps == 2        \* top-level entries of an authored workout
MaxChildren == 2     \* steps of an authored repeat group
MaxIterations == 2   \* iteration count of an authored repeat group

\* Sequences over S of length at most n
SeqUpTo(S, n) == UNION {[1..k -> S] : k \in 0..n}

\* Steps as the editor posts them. A REST step posted without a distance gets
\* the field default (100); one posted without a duration has duration None;
\* a duration of 0 is a valid duration_seconds.
LeafSamples ==
    { WorkoutStep(<<"s", 1>>, WARMUP, FREESTYLE, 200, None, None, None, NoEquipment),
      WorkoutStep(<<"s", 2>>, INTERVAL, BACKSTROKE, 50, None, Some(2),
                  Some(<<"Steady">>), {"pull_buoy", "fins"}),
      WorkoutStep(<<"s", 3>>, RECOVERY, FREESTYLE, 100, None, None, None, NoEquipment),
      WorkoutStep(<<"s", 4>>, REST, FREESTYLE, 0, Some(20), None, None, NoEquipment),
      WorkoutStep(<<"s", 5>>, REST, FREESTYLE, 100, None, None, None, NoEquipment),
      WorkoutStep(<<"s", 6>>, REST, FREESTYLE, 0, Some(0), None, None, NoEquipment) }

GroupSamples ==
    { RepeatGroup(<<"g", 1>>, n, ch) :
        n \in 1..MaxIterations, ch \in SeqUpTo(LeafSamples, MaxChildren) }

ShortName == [tag |-> "Morning Swim", len |-> 12]
LongName == [tag |-> "A very long workout name", len |-> NAME_MAX + 1]

\* The body a client starts from: WorkoutCreate with no steps yet
EmptyWorkout == Workout("w", ShortName, DEFAULT_POOL, <<>>)

----------------------------------------------------------------------------
(* Pure functions, run on every bounded input *)

NoOut == [op |-> "none", value |-> None]

FnInit ==
    /\ fnIn = EmptyWorkout
    /\ fnMid = None
    /\ fnOut = NoOut
    /\ fnPc = "author"

\* The client appends a step to the workout it is authoring
AuthorStep ==
    /\ fnPc = "author"
    /\ Len(fnIn.steps) < MaxSteps
    /\ \E s \in LeafSamples : fnIn' = [fnIn EXCEPT !.steps = Append(@, s)]
    /\ UNCHANGED <<fnMid, fnOut, fnPc>>

\* The client appends a repeat group (one group per authored workout)
AuthorGroup ==
    /\ fnPc = "author"
    /\ Len(fnIn.steps) < MaxSteps
    /\ \A i \in 1..Len(fnIn.steps) : ~IsGroup(fnIn.steps[i])
    /\ \E g \in GroupSamples : fnIn' = [fnIn EXCEPT !.steps = Append(@, g)]
    /\ UNCHANGED <<fnMid, fnOut, fnPc>>

\* Workout.total_distance on the input
ComputeTotalDistance ==
    /\ fnPc = "author"
    /\ fnOut' = [op |-> "total_distance", value |-> Some(total_distance(fnIn))]
    /\ fnPc' = "done"
    /\ UNCHANGED <<fnIn, fnMid>>

\* workout_to_garmin_dict on the input
ConvertToWire ==
    /\ fnPc = "author"
    /\ fnMid' = Some(workout_to_garmin_dict(fnIn))
    /\ fnPc' = "wire"
    /\ UNCHANGED <<fnIn, fnOut>>

\* garmin_to_workout on the wire form
ConvertFromWire ==
    /\ fnPc = "wire"
    /\ fnOut' = [op |-> "round_trip", value |-> Some(garmin_to_workout(fnMid[1]))]
    /\ fnPc' = "done"
    /\ UNCHANGED <<fnIn, fnMid>>

----------------------------------------------------------------------------
(* example_workouts.py: the template catalog (two of its twelve entries) *)

\* endurance_3500()
endurance_3500 ==
    LET b0 == SwimWorkoutBuilder([tag |-> "Endurance 3500m", len |-> 15], DEFAULT_POOL)
        b1 == warmup(b0, 400, FREESTYLE, Some(<<"Build to steady pace">>))
        b2 == repeat(b1, 6,
                  rest(swim(InnerBuilder(b1), 400, FREESTYLE, Some(2),
                            Some(<<"Hold steady pace">>)), 30, None))
        b3 == swim(b2, 300, FREESTYLE, Some(3), Some(<<"Negative split">>))
    IN  cooldown(b3, 200, FREESTYLE, None)

\* long_steady_4000()
long_steady_4000 ==
    LET b0 == SwimWorkoutBuilder([tag |-> "Long Steady 4000m", len |-> 17], DEFAULT_POOL)
        b1 == warmup(b0, 400, FREESTYLE, Some(<<"Gradual build">>))
        b2 == repeat(b1, 8,
                  rest(swim(InnerBuilder(b1), 400, FREESTYLE, Some(2),
                            Some(<<"Race pace, count strokes">>)), 15, None))
    IN  cooldown(b2, 400, FREESTYLE, Some(<<"Easy, loosen up">>))

\* WORKOUTS: template name |-> builder
WORKOUTS ==
    [t \in {"endurance-3500", "long-4000"} |->
        IF t = "endurance-3500" THEN endurance_3500 ELSE long_steady_4000]

----------------------------------------------------------------------------
(* The remote platform, as the requests see it *)

\* Workout ids the platform assigns
RemoteIds == {101, 102, 103, 104, 105}

\* Ids the platform assigns to an uploaded workout
UploadIds == {101, 102}

\* A wire leaf step as the platform returns it
RemoteStep(stepTypeId, conditionTypeKey, endConditionValue, strokeTypeId) ==
    [stepOrder |-> 1, stepTypeId |-> stepTypeId,
     conditionTypeKey |-> conditionTypeKey, endConditionValue |-> endConditionValue,
     targetTypeKey |-> "no.target", strokeTypeId |-> strokeTypeId,
     zoneNumber |-> None, description |-> None,
     numberOfIterations |-> None, workoutSteps |-> <<>>]

\* A wire repeat step as the platform returns it
RemoteRepeat(numberOfIterations, workoutSteps) ==
    [stepOrder |-> 1, stepTypeId |-> Some(REPEAT),
     conditionTypeKey |-> Some("iterations"), endConditionValue |-> numberOfIterations,
     targetTypeKey |-> "no.target", strokeTypeId |-> None,
     zoneNumber |-> None, description |-> None,
     numberOfIterations |-> numberOfIterations, workoutSteps |-> workoutSteps]

\* w.get("sportType", {}).get("sportTypeKey") of each remote workout: 103 is a
\* ride and 105 carries no sport type
RemoteSportKey(workoutId) ==
    CASE workoutId = 101 -> Some("lap_swimming")
      [] workoutId = 102 -> Some("swimming")
      [] workoutId = 103 -> Some("cycling")
      [] workoutId = 104 -> Some("open_water_swimming")
      [] OTHER -> None

\* client.get_workout_by_id(workout_id): the full wire workout of each id.
\* 102 carries a name of 81 characters, which Workout(name=...) rejects; 104
\* ends with a swim of ten minutes (end condition "time").
RemoteDetails(workoutId) ==
    [workoutId |-> Some(workoutId),
     workoutName |-> IF workoutId = 102 THEN Some(LongName)
                     ELSE Some([tag |-> "Remote swim", len |-> 11]),
     sportTypeKey |-> RemoteSportKey(workoutId),
     estimatedDurationInSecs |-> 0,
     workoutSegments |->
        <<[segmentOrder |-> 1,
           workoutSteps |->
              IF workoutId = 101
                THEN << RemoteStep(Some(WARMUP), Some("distance"), Some(300), Some(FREESTYLE)),
                        RemoteRepeat(Some(4),
                          << RemoteStep(Some(INTERVAL), Some("distance"), Some(100), Some(0)),
                             RemoteStep(Some(REST), Some("fixed.rest"), Some(20), None) >>) >>
                ELSE IF workoutId = 104
                THEN << RemoteStep(Some(INTERVAL), Some("distance"), Some(1500), Some(ANY)),
                        RemoteStep(Some(INTERVAL), Some("time"), Some(600), Some(FREESTYLE)) >>
                ELSE << RemoteStep(Some(INTERVAL), Some("distance"), Some(500), Some(FREESTYLE)) >>]>>,
     poolLength |-> Some(50)]

\* The summary client.get_workouts lists for an id
RemoteSummary(workoutId) ==
    [workoutId |-> workoutId, sportTypeKey |-> RemoteSportKey(workoutId)]

----------------------------------------------------------------------------
(* api/services/workout_service.py: the record store *)

MaxOps == 3          \* requests served in one run
MaxBatch == 2        \* remote workouts listed by one sync

NoFiles == [k \in {} |-> 0]

\* path.exists()
Exists(files, workout_id) == workout_id \in DOMAIN files

\* path.write_text(json.dumps(workout.model_dump()))
Written(files, workout_id, workout) ==
    [k \in DOMAIN files \cup {workout_id} |->
        IF k = workout_id THEN workout ELSE files[k]]

\* Faulty variant: the file is left in place
UnlinkedNothing(files, workout_id) == files

\* path.unlink()
Unlinked(files, workout_id) ==
    [k \in DOMAIN files \ {workout_id} |-> files[k]]

\* get_workout: "none" when no file, "raises" when Workout(**data) rejects the
\* stored data, else "ok"
GetWorkoutOutcome(files, workout_id) ==
    IF ~Exists(files, workout_id) THEN "none"
    ELSE IF ~ValidWorkout(files[workout_id]) THEN "raises"
    ELSE "ok"

\* str(uuid.uuid4()): a key never issued before (the n-th request gets the n-th)
Uuid(n) ==
    CASE n = 1 -> "uuid-1" [] n = 2 -> "uuid-2" [] n = 3 -> "uuid-3"
      [] n = 4 -> "uuid-4" [] n = 5 -> "uuid-5" [] n = 6 -> "uuid-6"
      [] OTHER -> "uuid-7"

\* create_workout: the Workout it builds from a WorkoutCreate
Created(workout_id, data) ==
    Workout(workout_id, data.name, data.pool_length, data.steps)

\* update_workout: the partial field replacement
Updated(workout, data) ==
    [workout EXCEPT
        !.name = IF data.name # None THEN data.name[1] ELSE @,
        !.pool_length = IF data.pool_length # None THEN data.pool_length[1] ELSE @,
        !.steps = IF data.steps # None THEN data.steps[1] ELSE @]

\* Faulty variant: the id field is left as it was
RenamedKeepsId(workout, new_id) == workout

\* replace_workout_id: "workout.id = new_id"
Renamed(workout, new_id) == [workout EXCEPT !.id = new_id]

\* initialize_workouts: the seeding loop over WORKOUTS
RECURSIVE Seeded(_, _)
Seeded(files, names) ==
    IF names = {} THEN files
    ELSE LET name == CHOOSE n \in names : TRUE
             conv == builder_to_workout(name, WORKOUTS[name])
         IN  IF ~conv.ok THEN files
             ELSE Seeded(Written(files, conv.workout.id, conv.workout), names \ {name})

\* Faulty variant: a record already stored under the remote id is kept
RECURSIVE SyncKeepsExisting(_, _, _)
SyncKeepsExisting(files, garmin_workouts, synced) ==
    IF garmin_workouts = <<>> THEN [files |-> files, synced |-> synced, ok |-> TRUE]
    ELSE LET conv == garmin_to_workout(Head(garmin_workouts))
         IN  IF ~conv.ok THEN [files |-> files, synced |-> synced, ok |-> FALSE]
             ELSE SyncKeepsExisting(
                      IF Exists(files, conv.workout.id) THEN files
                      ELSE Written(files, conv.workout.id, conv.workout),
                      Tail(garmin_workouts), Append(synced, conv.workout))

\* sync_from_garmin: convert and persist in order; a conversion that raises
\* ends the loop with the earlier workouts persisted: [files, synced, ok]
RECURSIVE sync_from_garmin(_, _, _)
sync_from_garmin(files, garmin_workouts, synced) ==
    IF garmin_workouts = <<>> THEN [files |-> files, synced |-> synced, ok |-> TRUE]
    ELSE LET conv == garmin_to_workout(Head(garmin_workouts))
         IN  IF ~conv.ok THEN [files |-> files, synced |-> synced, ok |-> FALSE]
             ELSE sync_from_garmin(Written(files, conv.workout.id, conv.workout),
                                   Tail(garmin_workouts), Append(synced, conv.workout))

\* [WorkoutSummary(...) for w in synced]
Summaries(synced) == [i \in 1..Len(synced) |-> WorkoutSummary(synced[i])]

----------------------------------------------------------------------------
(* api/services/garmin_service.py: the process-wide session *)

\* Faulty variant: the saved tokens are taken to log in whatever the remote
\* answers
StatusResumesAlways(cl, token, heldValid, resumeOk) ==
    IF cl = "present" /\ heldValid THEN [client |-> "present", authenticated |-> TRUE]
    ELSE IF token THEN [client |-> "present", authenticated |-> TRUE]
    ELSE [client |-> "absent", authenticated |-> FALSE]

\* get_status: heldValid says whether the held client still answers,
\* resumeOk whether the saved tokens still log in: [client, authenticated]
get_status(cl, token, heldValid, resumeOk) ==
    IF cl = "present" /\ heldValid THEN [client |-> "present", authenticated |-> TRUE]
    ELSE IF token /\ resumeOk THEN [client |-> "present", authenticated |-> TRUE]
    ELSE [client |-> "absent", authenticated |-> FALSE]

\* Whether a held client still answers get_full_name (asked only of a held one)
HeldAnswers(cl) == IF cl = "present" THEN BOOLEAN ELSE {TRUE}

\* Whether the saved tokens still log in; tried says that the resume is tried:
\* the file exists and no held client has answered
ResumeAnswers(tried) == IF tried THEN BOOLEAN ELSE {FALSE}

\* get_client: get_status() only when no client is held
get_client(cl, token, resumeOk) ==
    IF cl = "absent" THEN get_status(cl, token, TRUE, resumeOk).client ELSE cl

\* Faulty variant: the filter lets rides through
AnySportKeys == {"lap_swimming", "open_water_swimming", "swimming", "cycling"}

\* the swimming sport keys fetch_workouts keeps
SwimSportKeys == {"lap_swimming", "open_water_swimming", "swimming"}

\* fetch_workouts: the filter on the sport key
RECURSIVE SwimWorkouts(_)
SwimWorkouts(workouts) ==
    IF workouts = <<>> THEN <<>>
    ELSE (IF Head(workouts).sportTypeKey # None
             /\ Head(workouts).sportTypeKey[1] \in SwimSportKeys
            THEN <<Head(workouts)>> ELSE <<>>)
         \o SwimWorkouts(Tail(workouts))

\* fetch_workouts: [] without a client or when get_workouts raises, else the
\* swimming workouts of what get_workouts returned
fetch_workouts(cl, raises, workouts) ==
    IF cl = "absent" \/ raises THEN <<>> ELSE SwimWorkouts(workouts)

\* "for w in garmin_workouts: details = fetch_workout_details(...); if details: ..."
RECURSIVE FullWorkouts(_, _)
FullWorkouts(garmin_workouts, failing) ==
    IF garmin_workouts = <<>> THEN <<>>
    ELSE (IF Head(garmin_workouts).workoutId \in failing THEN <<>>
          ELSE <<RemoteDetails(Head(garmin_workouts).workoutId)>>)
         \o FullWorkouts(Tail(garmin_workouts), failing)

----------------------------------------------------------------------------
(* The requests. One request is served at a time (the handlers never yield). *)

\* heldValid and resumeOk record what the remote answered the request's last
\* session check: whether the held client answered, whether the saved tokens
\* logged in; afterLogout says that a logout was served and no login has
\* answered "authenticated" since, up to the start of the request
NoReq == [op |-> "none", id |-> "", new |-> "", wk |-> None, wire |-> None,
          listed |-> <<>>, batch |-> <<>>, heldValid |-> TRUE, resumeOk |-> FALSE,
          afterLogout |-> FALSE]
Req(op, id) == [NoReq EXCEPT !.op = op, !.id = id]

Res(code) == [code |-> code, workout_id |-> "", summaries |-> <<>>]
ResId(code, workout_id) == [Res(code) EXCEPT !.workout_id = workout_id]

\* Bodies a client posts to create: the last one has a name of 81 characters
CreateInputs ==
    { [name |-> ShortName, pool_length |-> DEFAULT_POOL,
       steps |-> << WorkoutStep(<<"s", 1>>, WARMUP, FREESTYLE, 200, None, None, None, NoEquipment),
                    RepeatGroup(<<"g", 1>>, 2,
                       << WorkoutStep(<<"s", 2>>, RECOVERY, BACKSTROKE, 50, None, Some(2),
                                      None, {"fins"}),
                          WorkoutStep(<<"s", 3>>, REST, FREESTYLE, 100, Some(20), None,
                                      None, NoEquipment) >>) >>],
      [name |-> LongName, pool_length |-> DEFAULT_POOL, steps |-> <<>>] }

\* Bodies a client puts to update (WorkoutUpdate constrains no field)
UpdateInputs ==
    { [name |-> Some(LongName), pool_length |-> None, steps |-> None],
      [name |-> None, pool_length |-> Some(50), steps |-> Some(<<>>)] }

\* Keys a request may name: the stored ones and one that is not stored
RequestIds == DOMAIN store \cup {"missing"}

\* The order in which the platform lists the account's workouts (most recent
\* first)
RemoteOrder == <<104, 103, 101, 102>>

\* What client.get_workouts may return: at most MaxBatch of the platform's
\* workouts, in the platform's order
Listings ==
    { [i \in 1..Len(pos) |-> RemoteOrder[pos[i]]] :
        pos \in { q \in SeqUpTo(1..Len(RemoteOrder), MaxBatch) :
                    \A i \in 1..(Len(q) - 1) : q[i] < q[i + 1] } }

Idle == pc = "idle" /\ ops < MaxOps

\* Every request starts by snapshotting what the claims compare against
Begin(r) ==
    /\ ops' = ops + 1
    /\ store0' = store
    /\ calls' = <<>>
    /\ req' = [r EXCEPT !.afterLogout =
                  \/ r.op = "logout"
                  \/ req.afterLogout /\ ~(req.op = "login" /\ result.code = "Authenticated")]

\* The process starts with no client held; the tokens an earlier run saved may
\* still be on disk
StoreInit ==
    /\ store = NoFiles
    /\ client = "absent"
    /\ tokenFile \in BOOLEAN
    /\ pc = "idle"
    /\ req = NoReq
    /\ result = Res("none")
    /\ calls = <<>>
    /\ store0 = NoFiles
    /\ ops = 0

\* initialize_workouts
InitializeWorkouts ==
    /\ Idle
    /\ Begin(Req("initialize", ""))
    /\ store' = IF DOMAIN store # {} THEN store ELSE Seeded(store, DOMAIN WORKOUTS)
    /\ result' = Res("Initialized")
    /\ UNCHANGED <<client, tokenFile, pc>>

\* POST /api/workouts -> create_workout
CreateWorkout ==
    /\ Idle
    /\ \E data \in CreateInputs :
         LET workout_id == Uuid(ops + 1)
         IN  /\ Begin(Req("create", workout_id))
             /\ IF ~ValidName(data.name)
                  THEN /\ store' = store
                       /\ result' = Res("ValidationError")
                  ELSE /\ store' = Written(store, workout_id, Created(workout_id, data))
                       /\ result' = ResId("Created", workout_id)
    /\ UNCHANGED <<client, tokenFile, pc>>

\* PUT /api/workouts/{workout_id} -> update_workout
UpdateWorkout ==
    /\ Idle
    /\ \E workout_id \in RequestIds, data \in UpdateInputs :
         LET got == GetWorkoutOutcome(store, workout_id)
         IN  /\ Begin(Req("update", workout_id))
             /\ IF got = "ok"
                  THEN /\ store' = Written(store, workout_id, Updated(store[workout_id], data))
                       /\ result' = ResId("Updated", workout_id)
                  ELSE /\ store' = store
                       /\ result' = Res(IF got = "none" THEN "NotFound" ELSE "ServerError")
    /\ UNCHANGED <<client, tokenFile, pc>>

\* DELETE /api/workouts/{workout_id} -> delete_workout
DeleteWorkout ==
    /\ Idle
    /\ \E workout_id \in RequestIds :
         /\ Begin(Req("delete", workout_id))
         /\ IF Exists(store, workout_id)
              THEN /\ store' = Unlinked(store, workout_id)
                   /\ result' = ResId("Deleted", workout_id)
              ELSE /\ store' = store
                   /\ result' = Res("NotFound")
    /\ UNCHANGED <<client, tokenFile, pc>>

----------------------------------------------------------------------------
(* replace_workout_id, step by step: load, write the new file, unlink the old *)

\* replace_workout_id(old_id, new_id) called on its own
ReplaceStart ==
    /\ Idle
    /\ \E old_id \in RequestIds, new_id \in {Str(n) : n \in UploadIds} \cup DOMAIN store :
         Begin([Req("replace", old_id) EXCEPT !.new = new_id])
    /\ pc' = "replace_load"
    /\ result' = Res("pending")
    /\ UNCHANGED <<store, client, tokenFile>>

\* Faulty variant: an absent record is loaded as a blank one
LoadedOrBlank(files, old_id) ==
    IF Exists(files, old_id) THEN Some(files[old_id])
    ELSE Some(Workout(old_id, UnnamedWorkout, DEFAULT_POOL, <<>>))

\* "workout = get_workout(old_id)" of replace_workout_id: None when no record
\* is stored at old_id
LoadedForReplace(files, old_id) ==
    IF GetWorkoutOutcome(files, old_id) = "ok" THEN Some(files[old_id]) ELSE None

\* "workout = get_workout(old_id); if not workout: return False"
ReplaceLoad ==
    /\ pc = "replace_load"
    /\ LET got == GetWorkoutOutcome(store, req.id)
           workout == LoadedForReplace(store, req.id)
       IN  IF got # "raises" /\ workout # None
             THEN /\ req' = [req EXCEPT !.wk = workout]
                  /\ pc' = "replace_write"
                  /\ UNCHANGED result
             ELSE /\ pc' = "idle"
                  /\ result' = IF got = "raises" THEN Res("ServerError")
                               ELSE IF req.op = "upload" THEN ResId("UploadOk", req.new)
                               ELSE Res("ReplaceFalse")
                  /\ UNCHANGED req
    /\ UNCHANGED <<store, client, tokenFile, calls, store0, ops>>

\* "workout.id = new_id; new_path.write_text(...)"
ReplaceWrite ==
    /\ pc = "replace_write"
    /\ store' = Written(store, req.new, Renamed(req.wk[1], req.new))
    /\ pc' = "replace_unlink"
    /\ UNCHANGED <<client, tokenFile, req, result, calls, store0, ops>>

\* "if old_path.exists(): old_path.unlink()" and the return
ReplaceUnlink ==
    /\ pc = "replace_unlink"
    /\ store' = IF Exists(store, req.id) THEN Unlinked(store, req.id) ELSE store
    /\ pc' = "idle"
    /\ result' = IF req.op = "upload" THEN ResId("UploadOk", req.new)
                 ELSE Res("ReplaceTrue")
    /\ UNCHANGED <<client, tokenFile, req, calls, store0, ops>>

\* The process is killed inside a replace_workout_id called on its own, before
\* the write or between the write and the unlink, and started again: the
\* files stay as they are and the new process holds no client
Interrupt ==
    /\ req.op = "replace"
    /\ pc \in {"replace_write", "replace_unlink"}
    /\ result' = Res(IF pc = "replace_write" THEN "InterruptedBeforeWrite"
                     ELSE "InterruptedBeforeUnlink")
    /\ pc' = "idle"
    /\ client' = "absent"
    /\ UNCHANGED <<store, tokenFile, req, calls, store0, ops>>

----------------------------------------------------------------------------
(* POST /api/garmin/upload/{workout_id}, step by step *)

\* A call made to the remote platform
Call(op, id, ok) == [op |-> op, id |-> id, ok |-> ok]

\* garmin_service.upload_workout: str(result.get("workoutId", "unknown"))
UploadedId(response) == IF response = None THEN "unknown" ELSE Str(response[1])

\* What the platform may answer to an upload: an id, or a body without one
UploadResponses == {None} \cup {Some(n) : n \in UploadIds}

\* Faulty variant: the comparison is inverted
NeedsSwapInverted(old_garmin_id, workout_id) ==
    old_garmin_id # "" /\ workout_id # "" /\ old_garmin_id = workout_id

\* Faulty variant: the ids are not compared
NeedsSwapNoCompare(old_garmin_id, workout_id) ==
    old_garmin_id # "" /\ workout_id # ""

\* "if old_garmin_id and result.workout_id and old_garmin_id != result.workout_id"
NeedsSwap(old_garmin_id, workout_id) ==
    old_garmin_id # "" /\ workout_id # "" /\ old_garmin_id # workout_id

\* garmin_service.upload_workout: the UploadResult [success, workout_id]
upload_workout(authenticated, raises, response) ==
    IF authenticated /\ ~raises
      THEN [success |-> TRUE, workout_id |-> UploadedId(response)]
      ELSE [success |-> FALSE, workout_id |-> ""]

\* Faulty variant: the conversion error is not raised to the caller
AfterConvertIgnored(raises) == "upload"

\* Where upload_workout (the route) goes after the conversion: the except
\* clause ends the request
AfterConvert(raises) == IF raises THEN "idle" ELSE "upload"

\* Faulty variant: success is not checked and the ids are only compared
AfterUploadUnchecked(uploaded, old_garmin_id) ==
    IF old_garmin_id # uploaded.workout_id THEN "delete_old" ELSE "idle"

\* Where the route goes after the upload: "if not result.success: raise",
\* then the swap when the ids differ
AfterUpload(uploaded, old_garmin_id) ==
    IF ~uploaded.success THEN "idle"
    ELSE IF NeedsSwap(old_garmin_id, uploaded.workout_id) THEN "delete_old"
    ELSE "idle"

\* Faulty variant: a failed remote delete ends the request
AfterDeleteChecked(deleted) == IF deleted THEN "replace_load" ELSE "idle"

\* Where the route goes after delete_workout_from_garmin, whatever it returned
AfterDelete(deleted) == "replace_load"

\* "workout = get_workout(workout_id); if not workout: raise 404"
UploadStart ==
    /\ Idle
    /\ \E workout_id \in RequestIds :
         LET got == GetWorkoutOutcome(store, workout_id)
         IN  /\ Begin([Req("upload", workout_id) EXCEPT
                          !.wk = IF got = "ok" THEN Some(store[workout_id]) ELSE None])
             /\ IF got = "ok"
                  THEN pc' = "convert" /\ result' = Res("pending")
                  ELSE /\ pc' = "idle"
                       /\ result' = Res(IF got = "none" THEN "NotFound" ELSE "ServerError")
    /\ UNCHANGED <<store, client, tokenFile>>

\* "try: workout_to_garmin_dict(workout) except: raise 400 Conversion error".
\* The garminconnect constructors the builder calls may raise.
UploadConvert ==
    /\ pc = "convert"
    /\ \E raises \in BOOLEAN :
         /\ pc' = AfterConvert(raises)
         /\ result' = IF raises THEN Res("ConversionError") ELSE result
         /\ req' = [req EXCEPT !.wire = IF raises THEN None
                                        ELSE Some(workout_to_garmin_dict(req.wk[1]))]
    /\ UNCHANGED <<store, client, tokenFile, calls, store0, ops>>

\* "result = garmin_service.upload_workout(...); if not result.success: raise 400"
UploadRemote ==
    /\ pc = "upload"
    /\ \E resumeOk \in ResumeAnswers(tokenFile /\ client = "absent"), raises \in BOOLEAN,
          response \in UploadResponses :
         LET st == IF client = "absent"
                     THEN get_status(client, tokenFile, TRUE, resumeOk)
                     ELSE [client |-> client, authenticated |-> TRUE]
             uploaded == upload_workout(st.authenticated, raises, response)
         IN  /\ client' = st.client
             /\ calls' = IF st.authenticated
                           THEN Append(calls, Call("upload", uploaded.workout_id,
                                                   uploaded.success))
                           ELSE calls
             /\ req' = [req EXCEPT !.new = uploaded.workout_id,
                                   !.resumeOk = resumeOk]
             /\ pc' = AfterUpload(uploaded, req.id)
             /\ result' = IF ~uploaded.success THEN Res("UploadFailed")
                          ELSE IF AfterUpload(uploaded, req.id) = "idle"
                                 THEN ResId("UploadOk", uploaded.workout_id)
                                 ELSE result
    /\ UNCHANGED <<store, tokenFile, store0, ops>>

\* "garmin_service.delete_workout_from_garmin(old_garmin_id)": its outcome is dropped
UploadDeleteOld ==
    /\ pc = "delete_old"
    /\ \E resumeOk \in ResumeAnswers(tokenFile /\ client = "absent"), raises \in BOOLEAN :
         LET cl == get_client(client, tokenFile, resumeOk)
         IN  /\ client' = cl
             /\ calls' = IF cl = "absent" THEN calls
                         ELSE Append(calls, Call("delete", req.id, ~raises))
             /\ pc' = AfterDelete(cl # "absent" /\ ~raises)
             /\ req' = [req EXCEPT !.resumeOk = resumeOk]
    /\ UNCHANGED <<store, tokenFile, result, store0, ops>>

----------------------------------------------------------------------------
(* POST /api/garmin/sync and the session endpoints *)

\* The summaries client.get_workouts returns for a listing of ids
RECURSIVE Listed(_)
Listed(ids) ==
    IF ids = <<>> THEN <<>> ELSE <<RemoteSummary(Head(ids))>> \o Listed(Tail(ids))

\* The ids of a list of summaries or wire workouts
IdsOf(ws) == [i \in 1..Len(ws) |-> ws[i].workoutId]

Range(f) == {f[i] : i \in DOMAIN f}

\* sync_workouts: after get_status a client is held, so fetch_workouts and
\* fetch_workout_details use it; listRaises and failing are the remote's errors
SyncWorkouts ==
    /\ Idle
    /\ \E heldValid \in HeldAnswers(client) :
      \E resumeOk \in ResumeAnswers(tokenFile /\ ~(client = "present" /\ heldValid)) :
         LET st == get_status(client, tokenFile, heldValid, resumeOk)
         IN  /\ client' = st.client
             /\ IF ~st.authenticated
                  THEN /\ Begin([Req("sync", "") EXCEPT !.heldValid = heldValid,
                                                         !.resumeOk = resumeOk])
                       /\ store' = store
                       /\ result' = Res("NotAuthenticated")
                  ELSE \E listing \in Listings :
                       \E listRaises \in (IF listing = <<>> THEN BOOLEAN ELSE {FALSE}),
                          failing \in {{}} \cup {{id} : id \in Range(IdsOf(SwimWorkouts(Listed(listing))))} :
                         LET garmin_workouts ==
                                 fetch_workouts(st.client, listRaises, Listed(listing))
                             full_workouts == FullWorkouts(garmin_workouts, failing)
                             done == sync_from_garmin(store, full_workouts, <<>>)
                         IN  /\ Begin([Req("sync", "") EXCEPT
                                          !.heldValid = heldValid,
                                          !.resumeOk = resumeOk,
                                          !.listed = IdsOf(garmin_workouts),
                                          !.batch = [i \in 1..Len(full_workouts) |->
                                                        full_workouts[i].workoutId[1]]])
                             /\ IF garmin_workouts = <<>>
                                  THEN store' = store /\ result' = Res("Synced")
                                  ELSE /\ store' = done.files
                                       /\ result' =
                                            IF done.ok
                                              THEN [Res("Synced") EXCEPT
                                                       !.summaries = Summaries(done.synced)]
                                              ELSE Res("ServerError")
    /\ UNCHANGED <<tokenFile, pc>>

\* POST /api/garmin/login: the login may fail before the tokens are saved, or
\* get_full_name may fail after they are
Login ==
    /\ Idle
    /\ Begin(Req("login", ""))
    /\ \E outcome \in {"rejected", "saved", "ok"} :
         /\ tokenFile' = IF outcome = "rejected" THEN tokenFile ELSE TRUE
         /\ client' = IF outcome = "ok" THEN "present" ELSE client
         /\ result' = Res(IF outcome = "ok" THEN "Authenticated" ELSE "LoginFailed")
    /\ UNCHANGED <<store, pc>>

\* POST /api/garmin/logout
Logout ==
    /\ Idle
    /\ Begin(Req("logout", ""))
    /\ client' = "absent"
    /\ tokenFile' = FALSE
    /\ result' = Res("LoggedOut")
    /\ UNCHANGED <<store, pc>>

\* GET /api/garmin/status
GetStatus ==
    /\ Idle
    /\ \E heldValid \in HeldAnswers(client) :
      \E resumeOk \in ResumeAnswers(tokenFile /\ ~(client = "present" /\ heldValid)) :
         LET st == get_status(client, tokenFile, heldValid, resumeOk)
         IN  /\ Begin([Req("status", "") EXCEPT !.heldValid = heldValid,
                                                !.resumeOk = resumeOk])
             /\ client' = st.client
             /\ result' = Res(IF st.authenticated THEN "Authenticated"
                              ELSE "NotAuthenticated")
    /\ UNCHANGED <<store, tokenFile, pc>>

----------------------------------------------------------------------------
(* fetch_workouts, run on every bounded listing *)

\* What client.get_workouts may return: distinct workouts of the platform, in
\* any order, at most MaxBatch of them
AllListings ==
    { l \in SeqUpTo(RemoteIds, MaxBatch) :
        \A i, j \in 1..Len(l) : i # j => l[i] # l[j] }

\* client.get_workouts(0, limit) answers a listing
ListRemote ==
    /\ fnPc = "author"
    /\ fnIn = EmptyWorkout
    /\ \E l \in AllListings : fnMid' = Some(l)
    /\ fnPc' = "listed"
    /\ UNCHANGED <<fnIn, fnOut>>

\* fetch_workouts on the listing: the ids of the summaries it returns
FetchWorkouts ==
    /\ fnPc = "listed"
    /\ \E cl \in {"absent", "present"}, raises \in BOOLEAN :
         fnOut' = [op |-> "fetch_workouts",
                   value |-> Some([client |-> cl, raises |-> raises,
                                   kept |-> IdsOf(fetch_workouts(cl, raises,
                                                                 Listed(fnMid[1])))])]
    /\ fnPc' = "done"
    /\ UNCHANGED <<fnIn, fnMid>>

----------------------------------------------------------------------------
(* garmin_to_workout, run on wire steps with every integer code *)

\* stepTypeId values of a returned leaf step: the step kinds 1..5 and codes
\* no kind has (6 marks a repeat group, not a leaf)
WireStepCodes == (0..9) \ {REPEAT}

\* strokeTypeId values of a returned leaf step: the strokes 1..7 and codes no
\* stroke has
WireStrokeCodes == 0..9

\* endCondition.conditionTypeKey and endConditionValue of a returned leaf
\* step: a distance, a time, a fixed rest, and a lap-button press with and
\* without a value
WireEndConditions ==
    { [key |-> "distance", value |-> Some(50)],
      [key |-> "time", value |-> Some(50)],
      [key |-> "fixed.rest", value |-> Some(50)],
      [key |-> "lap.button", value |-> Some(50)],
      [key |-> "lap.button", value |-> None] }

\* A returned workout whose first segment holds the given steps
WireWorkout(workoutSteps) ==
    [RemoteDetails(101) EXCEPT
        !.workoutSegments = <<[segmentOrder |-> 1, workoutSteps |-> workoutSteps]>>]

\* The platform returns a workout with one leaf step, at the top level or
\* inside a repeat group
ReceiveWire ==
    /\ fnPc = "author"
    /\ fnIn = EmptyWorkout
    /\ \E stepTypeId \in WireStepCodes, strokeTypeId \in WireStrokeCodes,
          endCondition \in WireEndConditions, nested \in BOOLEAN :
         LET g_step == RemoteStep(Some(stepTypeId), Some(endCondition.key),
                                  endCondition.value, Some(strokeTypeId))
         IN  fnMid' = Some(WireWorkout(IF nested THEN <<RemoteRepeat(Some(2), <<g_step>>)>>
                                       ELSE <<g_step>>))
    /\ fnPc' = "received"
    /\ UNCHANGED <<fnIn, fnOut>>

\* The platform returns a workout whose repeat step holds another repeat step:
\* alone or after a leaf, with or without its iteration count, holding a
\* leaf, nothing, or a third repeat step
ReceiveNested ==
    /\ fnPc = "author"
    /\ fnIn = EmptyWorkout
    /\ \E numberOfIterations \in {None, Some(3)}, after_leaf \in BOOLEAN,
          inner_steps \in {"leaf", "none", "repeat"} :
         LET g_step == RemoteStep(Some(INTERVAL), Some("distance"), Some(50),
                                  Some(FREESTYLE))
             inner == RemoteRepeat(numberOfIterations,
                         IF inner_steps = "leaf" THEN <<g_step>>
                         ELSE IF inner_steps = "none" THEN <<>>
                         ELSE <<RemoteRepeat(Some(2), <<g_step>>)>>)
         IN  fnMid' = Some(WireWorkout(<<RemoteRepeat(Some(2),
                              IF after_leaf THEN <<g_step, inner>> ELSE <<inner>>)>>))
    /\ fnPc' = "nested"
    /\ UNCHANGED <<fnIn, fnOut>>

\* garmin_to_workout on the returned workout
ConvertReceived ==
    /\ fnPc \in {"received", "nested"}
    /\ fnOut' = [op |-> IF fnPc = "received" THEN "from_wire" ELSE "from_nested",
                 value |-> Some(garmin_to_workout(fnMid[1]))]
    /\ fnPc' = "done"
    /\ UNCHANGED <<fnIn, fnMid>>

----------------------------------------------------------------------------
(* swim_workout.py: call sequences on one SwimWorkoutBuilder *)

MaxCalls == 3        \* calls that add to the builder
MaxDepth == 1        \* repeat() calls whose steps_fn is running at once
MaxBuilds == 2       \* build() calls

\* Arguments the calls are made with
Distances == {33, 100}
RestChoices == {0, 20}
ZoneChoices == {None, Some(2)}
RepeatTimes == {0, 1, 2}

\* Every call that adds to the builder forgets the objects built before it
NoCall == [op |-> "none", times |-> 1, outcome |-> "ok", before |-> None]

\* create_swim_workout(name): a fresh builder, nothing called yet.
\* tenths is the duration the calls add up to, in tenths of a second, counting
\* 1.2 s per metre; whole counts the whole seconds of each swim.
BuilderInit ==
    /\ \E name \in {ShortName, LongName} :
         self = SwimWorkoutBuilder(name, DEFAULT_POOL)
    /\ outer = <<>>
    /\ bLog = [tenths |-> 0, whole |-> 0, edits |-> 0, last |-> NoCall]
    /\ built = <<>>

\* The builder is not in use
BuilderOff ==
    /\ self = SwimWorkoutBuilder(ShortName, DEFAULT_POOL)
    /\ outer = <<>>
    /\ bLog = [tenths |-> 0, whole |-> 0, edits |-> 0, last |-> NoCall]
    /\ built = <<>>

CanCall == bLog.edits < MaxCalls

\* The log after a call that added tenths/whole to the duration
Logged(op, tenths, whole) ==
    [tenths |-> bLog.tenths + tenths, whole |-> bLog.whole + whole,
     edits |-> bLog.edits + 1,
     last |-> [op |-> op, times |-> 1, outcome |-> "ok", before |-> Some(self)]]

\* builder.warmup(d)
CallWarmup ==
    /\ CanCall
    /\ \E d \in Distances :
         /\ self' = warmup(self, d, FREESTYLE, None)
         /\ bLog' = Logged("warmup", 12 * d, (12 * d) \div 10)
    /\ built' = <<>>
    /\ UNCHANGED outer

\* builder.cooldown(d)
CallCooldown ==
    /\ CanCall
    /\ \E d \in Distances :
         /\ self' = cooldown(self, d, FREESTYLE, None)
         /\ bLog' = Logged("cooldown", 12 * d, (12 * d) \div 10)
    /\ built' = <<>>
    /\ UNCHANGED outer

\* builder.swim(d, zone=z)
CallSwim ==
    /\ CanCall
    /\ \E d \in Distances, z \in ZoneChoices :
         /\ self' = swim(self, d, FREESTYLE, z, None)
         /\ bLog' = Logged("swim", 12 * d, (12 * d) \div 10)
    /\ built' = <<>>
    /\ UNCHANGED outer

\* builder.rest(seconds)
CallRest ==
    /\ CanCall
    /\ \E seconds \in RestChoices :
         /\ self' = rest(self, seconds, None)
         /\ bLog' = Logged("rest", 10 * seconds, seconds)
    /\ built' = <<>>
    /\ UNCHANGED outer

\* builder.rest_until_button()
CallRestUntilButton ==
    /\ CanCall
    /\ self' = rest_until_button(self, None)
    /\ bLog' = Logged("rest_until_button", 300, 30)
    /\ built' = <<>>
    /\ UNCHANGED outer

\* builder.repeat(times, steps_fn), up to the call of steps_fn: the calls that
\* follow go to the inner builder
RepeatBegin ==
    /\ CanCall
    /\ Len(outer) < MaxDepth
    /\ \E times \in RepeatTimes :
         outer' = Append(outer, [b |-> self, times |-> times,
                                 tenths |-> bLog.tenths, whole |-> bLog.whole])
    /\ self' = InnerBuilder(self)
    /\ bLog' = [bLog EXCEPT !.tenths = 0, !.whole = 0, !.edits = @ + 1]
    /\ built' = <<>>

\* What RepeatGroup(numberOfIterations=times, ...) of garminconnect may do: it
\* accepts a count of at least 1; whether it checks a lower count is the
\* library's business
RepeatOutcomes(times) == IF times >= 1 THEN {"ok"} ELSE {"ok", "ValidationError"}

\* builder.repeat(times, steps_fn), after steps_fn returned
RepeatEnd ==
    /\ outer # <<>>
    /\ LET top == outer[Len(outer)]
       IN  \E outcome \in RepeatOutcomes(top.times) :
             /\ self' = IF outcome = "ok" THEN repeat(top.b, top.times, self)
                            ELSE repeat_raised(top.b, top.times, self)
             /\ bLog' = [tenths |-> top.tenths + top.times * bLog.tenths,
                         whole |-> top.whole + top.times * bLog.whole,
                         edits |-> bLog.edits,
                         last |-> [op |-> "repeat", times |-> top.times,
                                   outcome |-> outcome, before |-> Some(top.b)]]
    /\ outer' = SubSeq(outer, 1, Len(outer) - 1)
    /\ UNCHANGED built

\* Faulty variant: build() hands its steps over and starts afresh
AfterBuildCleared(b) == [b EXCEPT !.steps = <<>>, !.step_order = 0]

\* The builder after build(): no attribute of self is assigned
AfterBuild(b) == b

\* builder.build(), called between the calls that add steps; built holds the
\* objects returned since the last such call
CallBuild ==
    /\ outer = <<>>
    /\ Len(built) < MaxBuilds
    /\ built' = Append(built, [wire |-> build(self), before |-> self])
    /\ self' = AfterBuild(self)
    /\ UNCHANGED <<outer, bLog>>

----------------------------------------------------------------------------
(* The specifications *)

Init ==
    /\ StoreInit
    /\ fnIn = EmptyWorkout
    /\ fnMid = None
    /\ fnOut = NoOut
    /\ fnPc = "off"
    /\ BuilderOff

Next ==
    \/ InitializeWorkouts /\ UNCHANGED <<fnVars, bVars>>
    \/ CreateWorkout /\ UNCHANGED <<fnVars, bVars>>
    \/ UpdateWorkout /\ UNCHANGED <<fnVars, bVars>>
    \/ DeleteWorkout /\ UNCHANGED <<fnVars, bVars>>
    \/ ReplaceStart /\ UNCHANGED <<fnVars, bVars>>
    \/ ReplaceLoad /\ UNCHANGED <<fnVars, bVars>>
    \/ ReplaceWrite /\ UNCHANGED <<fnVars, bVars>>
    \/ ReplaceUnlink /\ UNCHANGED <<fnVars, bVars>>
    \/ Interrupt /\ UNCHANGED <<fnVars, bVars>>
    \/ UploadStart /\ UNCHANGED <<fnVars, bVars>>
    \/ UploadConvert /\ UNCHANGED <<fnVars, bVars>>
    \/ UploadRemote /\ UNCHANGED <<fnVars, bVars>>
    \/ UploadDeleteOld /\ UNCHANGED <<fnVars, bVars>>
    \/ SyncWorkouts /\ UNCHANGED <<fnVars, bVars>>
    \/ Login /\ UNCHANGED <<fnVars, bVars>>
    \/ Logout /\ UNCHANGED <<fnVars, bVars>>
    \/ GetStatus /\ UNCHANGED <<fnVars, bVars>>

\* The record store, the session and the request handlers
Spec == Init /\ [][Next]_vars

FnStart ==
    /\ StoreInit
    /\ tokenFile = FALSE
    /\ FnInit
    /\ BuilderOff

FnNext ==
    \/ AuthorStep /\ UNCHANGED <<storeVars, bVars>>
    \/ AuthorGroup /\ UNCHANGED <<storeVars, bVars>>
    \/ ComputeTotalDistance /\ UNCHANGED <<storeVars, bVars>>
    \/ ConvertToWire /\ UNCHANGED <<storeVars, bVars>>
    \/ ConvertFromWire /\ UNCHANGED <<storeVars, bVars>>
    \/ ListRemote /\ UNCHANGED <<storeVars, bVars>>
    \/ FetchWorkouts /\ UNCHANGED <<storeVars, bVars>>
    \/ ReceiveWire /\ UNCHANGED <<storeVars, bVars>>
    \/ ReceiveNested /\ UNCHANGED <<storeVars, bVars>>
    \/ ConvertReceived /\ UNCHANGED <<storeVars, bVars>>

\* The pure functions of the domain model and the converters
SpecFn == FnStart /\ [][FnNext]_vars

BuilderStart ==
    /\ StoreInit
    /\ tokenFile = FALSE
    /\ fnIn = EmptyWorkout
    /\ fnMid = None
    /\ fnOut = NoOut
    /\ fnPc = "off"
    /\ BuilderInit

BuilderNext ==
    \/ CallWarmup /\ UNCHANGED <<storeVars, fnVars>>
    \/ CallCooldown /\ UNCHANGED <<storeVars, fnVars>>
    \/ CallSwim /\ UNCHANGED <<storeVars, fnVars>>
    \/ CallRest /\ UNCHANGED <<storeVars, fnVars>>
    \/ CallRestUntilButton /\ UNCHANGED <<storeVars, fnVars>>
    \/ RepeatBegin /\ UNCHANGED <<storeVars, fnVars>>
    \/ RepeatEnd /\ UNCHANGED <<storeVars, fnVars>>
    \/ CallBuild /\ UNCHANGED <<storeVars, fnVars>>

\* The calls a client makes on one SwimWorkoutBuilder
SpecBuilder == BuilderStart /\ [][BuilderNext]_vars

----------------------------------------------------------------------------
(* Properties *)

UploadSteps == {"delete_old", "replace_load", "replace_write", "replace_unlink"}

\* The remote upload of the current request has answered success with id new
UploadConfirmed ==
    /\ req.new # ""
    /\ \E i \in 1..Len(calls) :
         calls[i].op = "upload" /\ calls[i].ok /\ calls[i].id = req.new

\* The record that was stored at old is now stored at new, under the new id,
\* and nothing is stored at old
SwapDone(old, new) ==
    /\ ~Exists(store, old)
    /\ Exists(store, new)
    /\ store[new] = Workout(new, store0[old].name, store0[old].pool_length,
                            store0[old].steps)

DeleteCalls == {i \in 1..Len(calls) : calls[i].op = "delete"}

\* C1: every record of the store has an id field equal to the key it is
\* stored under, in every state, the intermediate states of replace_id included.
C1_IdEqualsKey == \A k \in DOMAIN store : store[k].id = k

\* C1 witness: replace_id has written the new file and not yet unlinked the old
C1_Witness ==
    /\ pc = "replace_unlink"
    /\ req.id # req.new
    /\ Exists(store, req.id)
    /\ Exists(store, req.new)

\* What C2 says of a replace_id that returned: old is gone, new holds the
\* record with the new id and the old name, pool length and steps
ReplacedAsClaimed ==
    /\ GetWorkoutOutcome(store, req.id) = "none"
    /\ GetWorkoutOutcome(store, req.new) = "ok"
    /\ store[req.new].id = req.new
    /\ store[req.new].name = store0[req.id].name
    /\ store[req.new].pool_length = store0[req.id].pool_length
    /\ store[req.new].steps = store0[req.id].steps

ReplaceReturnedTrue ==
    pc = "idle" /\ req.op = "replace" /\ result.code = "ReplaceTrue"

\* C2 as stated: for all ids old and new with a record at old, after
\* replace_id(old, new) get(old) is not-found and get(new) is the renamed record.
C2_Original == ReplaceReturnedTrue => ReplacedAsClaimed

\* C2 amended: the same for all ids old and new that differ.
C2_ReplaceMovesRecord ==
    (ReplaceReturnedTrue /\ req.id # req.new) => ReplacedAsClaimed

\* C2 witness: a replace_id between two different ids has returned
C2_Witness == ReplaceReturnedTrue /\ req.id # req.new

\* C3: when the remote upload reports failure the flow stops with that error,
\* the store is as it was when the flow started and no remote delete is issued.
C3_FailedUploadChangesNothing ==
    (req.op = "upload" /\ result.code = "UploadFailed") =>
        /\ pc = "idle"
        /\ store = store0
        /\ DeleteCalls = {}

\* C3 witness: an upload was attempted on a stored record and the remote refused it
C3_Witness ==
    /\ req.op = "upload"
    /\ result.code = "UploadFailed"
    /\ Exists(store0, req.id)
    /\ \E i \in 1..Len(calls) : calls[i].op = "upload" /\ ~calls[i].ok

\* C4: the remote delete of the old record and the local replace_id happen only
\* after the upload answered success with a new id, and both happen whenever
\* the upload succeeded with an id different from the local one.
C4_SwapOnlyAfterUpload ==
    req.op = "upload" =>
        /\ (pc \in UploadSteps => UploadConfirmed)
        /\ (store # store0 => UploadConfirmed)
        /\ \A i \in DeleteCalls :
             /\ calls[i].id = req.id
             /\ \E j \in 1..(i - 1) : calls[j].op = "upload" /\ calls[j].ok
        /\ (pc = "idle" /\ UploadConfirmed /\ req.new # req.id =>
              /\ DeleteCalls # {}
              /\ SwapDone(req.id, req.new))

\* C4 witness: an upload answered a new id, the old remote record was deleted
\* and the local record was re-keyed
C4_Witness ==
    /\ req.op = "upload"
    /\ pc = "idle"
    /\ UploadConfirmed
    /\ req.new # req.id
    /\ \E i \in DeleteCalls : calls[i].ok
    /\ SwapDone(req.id, req.new)

\* C5: when the upload succeeded with a new id and the remote delete of the old
\* record failed (or could not be sent), the flow goes on: replace_id is done
\* and the successful upload result is returned.
C5_DeleteFailureSwallowed ==
    (/\ req.op = "upload"
     /\ UploadConfirmed
     /\ req.new # req.id
     /\ pc \notin {"upload", "delete_old"}
     /\ ~\E i \in DeleteCalls : calls[i].ok) =>
        /\ pc \in {"replace_load", "replace_write", "replace_unlink", "idle"}
        /\ pc = "idle" => /\ result = ResId("UploadOk", req.new)
                          /\ SwapDone(req.id, req.new)

\* C5 witness: the remote delete failed and the flow finished with the swap
C5_Witness ==
    /\ req.op = "upload"
    /\ pc = "idle"
    /\ \E i \in DeleteCalls : ~calls[i].ok
    /\ result = ResId("UploadOk", req.new)
    /\ SwapDone(req.id, req.new)

\* C6: no remote call is made unless the record was found and converted; a
\* missing record ends the flow with NotFound, a failed conversion with a
\* conversion error, both without a remote call and with the store unchanged.
C6_NoRemoteCallBeforeConversion ==
    req.op = "upload" =>
        /\ (calls # <<>> => (req.wk # None /\ req.wire # None))
        /\ (pc \in {"upload"} \cup UploadSteps => (req.wk # None /\ req.wire # None))
        /\ (~Exists(store0, req.id) => (pc = "idle" /\ result.code = "NotFound"))
        /\ (result.code \in {"NotFound", "ConversionError"} =>
              (pc = "idle" /\ calls = <<>> /\ store = store0))

\* C6 witness: the conversion of a stored record failed
C6_Witness ==
    /\ req.op = "upload"
    /\ result.code = "ConversionError"
    /\ Exists(store0, req.id)

\* C7: when the upload answers the id the record already has, no remote delete
\* is issued, the store is unchanged and the success result is returned.
C7_SameIdNoSwap ==
    (/\ req.op = "upload"
     /\ \E i \in 1..Len(calls) :
          calls[i].op = "upload" /\ calls[i].ok /\ calls[i].id = req.id) =>
        /\ pc = "idle"
        /\ DeleteCalls = {}
        /\ store = store0
        /\ result = ResId("UploadOk", req.id)

\* C7 witness: an upload of a stored record answered the record's own id
C7_Witness ==
    /\ req.op = "upload"
    /\ Exists(store, req.id)
    /\ \E i \in 1..Len(calls) :
         calls[i].op = "upload" /\ calls[i].ok /\ calls[i].id = req.id

\* The total distance C8 describes: REST steps count 0 everywhere, a group
\* counts its iterations times its children's
RECURSIVE ClaimedDistance(_)
ClaimedDistance(steps) ==
    IF steps = <<>> THEN 0
    ELSE LET e == Head(steps)
         IN  (IF IsGroup(e) THEN e.iterations * ClaimedDistance(e.steps)
              ELSE IF e.step_type = REST THEN 0
              ELSE e.distance_m)
             + ClaimedDistance(Tail(steps))

\* C8: total_distance(W) counts 0 for every REST step, top-level or inside a
\* group, the distance of every other step, and iterations times the children
\* for a group.
C8_TotalDistance ==
    fnOut.op = "total_distance" => fnOut.value[1] = ClaimedDistance(fnIn.steps)

\* Two step lists agree on what C9 says the round trip keeps
RECURSIVE SameEntries(_, _)
SameEntries(a, b) ==
    /\ Len(a) = Len(b)
    /\ \A i \in 1..Len(a) :
         /\ IsGroup(a[i]) = IsGroup(b[i])
         /\ IF IsGroup(a[i])
              THEN /\ a[i].iterations = b[i].iterations
                   /\ SameEntries(a[i].steps, b[i].steps)
              ELSE /\ a[i].step_type = b[i].step_type
                   /\ a[i].stroke = b[i].stroke
                   /\ a[i].distance_m = b[i].distance_m
                   /\ a[i].duration_seconds = b[i].duration_seconds

\* C9: wire_to_workout(workout_to_wire(W)) has the entries and nesting of W,
\* every group keeps its iteration count and every step its kind, stroke,
\* distance and duration.
C9_RoundTrip ==
    fnOut.op = "round_trip" =>
        /\ fnOut.value[1].ok
        /\ SameEntries(fnIn.steps, fnOut.value[1].workout.steps)

\* C10: a sync whose listing is not empty returns normally, and every workout
\* of the batch that can be fetched and converted is persisted and summarised,
\* whatever happens to the others.
C10_SyncSkipsFailures ==
    (req.op = "sync" /\ req.listed # <<>>) =>
        /\ result.code = "Synced"
        /\ \A id \in Range(req.batch) :
             LET conv == garmin_to_workout(RemoteDetails(id))
             IN  conv.ok =>
                   /\ Exists(store, conv.workout.id)
                   /\ store[conv.workout.id] = conv.workout
                   /\ WorkoutSummary(conv.workout) \in Range(result.summaries)

\* The keys a sync writes: the remote ids of its batch, as strings
BatchKeys == {Str(req.batch[i]) : i \in 1..Len(req.batch)}

\* The domain workout a remote id converts to (computed from the wire fields)
ConvertedRemote(id) == garmin_to_workout(RemoteDetails(id)).workout

\* C11: after a sync, each workout of the batch is stored under its remote id
\* as a string and is the conversion of its wire form, whatever was stored
\* there before; every other key is as it was; the summaries returned are those
\* of the batch, in batch order.
C11_SyncPersistsBatch ==
    req.op = "sync" =>
        /\ \A k \in (DOMAIN store \cup DOMAIN store0) \ BatchKeys :
             k \in DOMAIN store /\ k \in DOMAIN store0 /\ store[k] = store0[k]
        /\ result.code = "Synced" =>
              /\ Len(result.summaries) = Len(req.batch)
              /\ \A i \in 1..Len(req.batch) :
                   LET w == ConvertedRemote(req.batch[i])
                   IN  /\ Str(req.batch[i]) \in DOMAIN store
                       /\ store[Str(req.batch[i])] = w
                       /\ w.id = Str(req.batch[i])
                       /\ result.summaries[i] =
                            [id |-> w.id, name |-> w.name,
                             total_distance |-> total_distance(w),
                             step_count |-> Len(w.steps)]

\* C11 witness: a sync of two workouts returned, and it replaced a record that
\* was stored under one of the remote ids with other content
C11_Witness ==
    /\ req.op = "sync"
    /\ result.code = "Synced"
    /\ Len(req.batch) = 2
    /\ \E i \in 1..2 :
         /\ Str(req.batch[i]) \in DOMAIN store0
         /\ store0[Str(req.batch[i])] # store[Str(req.batch[i])]

\* The ids of a listing whose sport key is one of the three swimming keys
RECURSIVE KeptIds(_)
KeptIds(ids) ==
    IF ids = <<>> THEN <<>>
    ELSE (IF RemoteSportKey(Head(ids)) \in
               {<<"lap_swimming">>, <<"open_water_swimming">>, <<"swimming">>}
            THEN <<Head(ids)>> ELSE <<>>)
         \o KeptIds(Tail(ids))

\* C12: when get_workouts answers, the fetch step keeps exactly the summaries
\* whose sport key is lap_swimming, open_water_swimming or swimming, in their
\* order; a ride or a summary with no sport key is dropped.
C12_SportFilter ==
    (fnOut.op = "fetch_workouts"
       /\ fnOut.value[1].client = "present" /\ ~fnOut.value[1].raises) =>
        fnOut.value[1].kept = KeptIds(fnMid[1])

\* C12 witness: a listing of a swimming workout next to a ride or a workout
\* without sport key was fetched and one summary was kept
C12_Witness ==
    /\ fnOut.op = "fetch_workouts"
    /\ fnOut.value[1].client = "present"
    /\ ~fnOut.value[1].raises
    /\ Len(fnMid[1]) = 2
    /\ \E i \in 1..2 : fnMid[1][i] \in {103, 105}
    /\ Len(fnOut.value[1].kept) = 1

\* The builder of the scenario "warmup(300).repeat(4, swim(100, zone 2).rest(20))
\* .cooldown(200)"
ScenarioBuilder ==
    LET b0 == SwimWorkoutBuilder(ShortName, DEFAULT_POOL)
        b1 == warmup(b0, 300, FREESTYLE, None)
        inner == rest(swim(InnerBuilder(b1), 100, FREESTYLE, Some(2), None), 20, None)
        b2 == repeat(b1, 4, inner)
    IN  cooldown(b2, 200, FREESTYLE, None)

\* C13 as stated: the estimated duration is the sum of distance_m * 1.2 for
\* each warmup, cooldown and swim, seconds for each rest, 30 for each
\* rest_until_button and times x the inner duration for each repeat (compared
\* in tenths of a second, the unit in which distance_m * 1.2 is exact)
C13_Original ==
    /\ 10 * self.estimated_duration = bLog.tenths
    /\ \A i \in 1..Len(built) :
         10 * built[i].wire.estimatedDurationInSecs = bLog.tenths

\* C13: for every sequence of builder calls, the estimated duration carried by
\* the builder and by every build() equals the sum of int(distance_m * 1.2),
\* the whole seconds of distance_m * 1.2, for each warmup, cooldown and swim;
\* seconds for each rest (0 for rest(0)); 30 for each rest_until_button; and
\* times x the inner builder's duration for each repeat.  The scenario
\* warmup(300).repeat(4, swim(100, zone 2).rest(20)).cooldown(200) yields 1160.
C13_DurationEstimate ==
    /\ self.estimated_duration = bLog.whole
    /\ \A i \in 1..Len(built) :
         built[i].wire.estimatedDurationInSecs = bLog.whole
    /\ build(ScenarioBuilder).estimatedDurationInSecs = 1160

\* A build() after a repeat of two iterations over a 33 m swim: 39 whole
\* seconds per iteration where 33 * 1.2 is 39.6
C13_Witness ==
    /\ built # <<>>
    /\ bLog.last.op = "repeat" /\ bLog.last.times = 2
    /\ bLog.tenths = 2 * 396
    /\ built[1].wire.estimatedDurationInSecs = 78

\* C14: repeat(times, fn) requires times >= 1: no sequence of builder calls
\* produces a repeat group whose iteration count is below 1, and a call with
\* times < 1 is rejected as a validation error and leaves the builder's steps,
\* order counter and duration estimate as they were before the call.
C14_RepeatRequiresPositive ==
    /\ \A i \in 1..Len(self.steps) :
         self.steps[i].numberOfIterations # None
            => self.steps[i].numberOfIterations[1] >= 1
    /\ (outer = <<>> /\ bLog.last.op = "repeat" /\ bLog.last.times < 1)
          => /\ bLog.last.outcome = "ValidationError"
             /\ self.steps = bLog.last.before[1].steps
             /\ self.step_order = bLog.last.before[1].step_order
             /\ self.estimated_duration = bLog.last.before[1].estimated_duration

\* C17: build() is idempotent: the objects build() returned with no mutating
\* call in between have identical field values (name truncated to 80
\* characters, pool length, estimated duration, one segment holding all
\* top-level steps in order), and build() changes neither the builder's step
\* list, its order counter nor its duration estimate.
C17_BuildIdempotent ==
    \A i \in 1..Len(built) :
        /\ built[i].wire = built[1].wire
        /\ built[i].wire.workoutName[1].tag = self.name.tag
        /\ built[i].wire.workoutName[1].len <= NAME_MAX
        /\ built[i].wire.poolLength = Some(self.pool_length)
        /\ built[i].wire.estimatedDurationInSecs = self.estimated_duration
        /\ Len(built[i].wire.workoutSegments) = 1
        /\ built[i].wire.workoutSegments[1].workoutSteps = built[i].before.steps
        /\ self.steps = built[i].before.steps
        /\ self.step_order = built[i].before.step_order
        /\ self.estimated_duration = built[i].before.estimated_duration

\* build() was called twice in a row on a builder named with more than 80
\* characters that holds a warmup and a repeat group
C17_Witness ==
    /\ Len(built) = 2
    /\ built[2].wire.workoutName[1].len = NAME_MAX
    /\ Len(self.steps) = 2
    /\ self.steps[1].stepTypeId = Some(WARMUP)
    /\ self.steps[2].stepTypeId = Some(REPEAT)
    /\ self.steps[2].workoutSteps # <<>>

\* The wire step g is a fixed-duration rest of the duration of the REST step,
\* or of 30 seconds when the step has no duration
RestEmitted(step, g) ==
    /\ g.stepTypeId = Some(REST)
    /\ g.conditionTypeKey = Some("fixed.rest")
    /\ g.endConditionValue = Some(IF step.duration_seconds = None THEN DEFAULT_REST
                                  ELSE step.duration_seconds[1])

\* C15: workout_to_wire emits, for every REST step of the domain workout (at
\* the top level or inside a repeat group), a fixed-duration rest whose value
\* is the step's duration in seconds; 30 seconds only when the duration is
\* missing, so a REST step with duration 0 is emitted as a 0-second rest.
C15_RestDuration ==
    fnPc = "wire" =>
        LET g_steps == fnMid[1].workoutSegments[1].workoutSteps
        IN  /\ Len(g_steps) = Len(fnIn.steps)
            /\ \A i \in 1..Len(fnIn.steps) :
                 IF IsGroup(fnIn.steps[i])
                   THEN /\ Len(g_steps[i].workoutSteps) = Len(fnIn.steps[i].steps)
                        /\ \A j \in 1..Len(fnIn.steps[i].steps) :
                             fnIn.steps[i].steps[j].step_type = REST
                                => RestEmitted(fnIn.steps[i].steps[j],
                                               g_steps[i].workoutSteps[j])
                   ELSE fnIn.steps[i].step_type = REST
                           => RestEmitted(fnIn.steps[i], g_steps[i])

\* The leaf step a returned workout was received with
ReceivedLeaf ==
    LET first == fnMid[1].workoutSegments[1].workoutSteps[1]
    IN  IF first.workoutSteps = <<>> THEN first ELSE first.workoutSteps[1]

\* The step the conversion made of the received leaf
ConvertedLeaf ==
    LET first == fnOut.value[1].workout.steps[1]
    IN  IF IsGroup(first) THEN first.steps[1] ELSE first

\* C16: wire_to_workout normalizes codes: for every leaf wire step, a
\* strokeTypeId outside 1..7 yields stroke FREESTYLE and a stepTypeId outside
\* 1..6 yields kind INTERVAL, every in-range stroke code and every step code
\* 1..5 is preserved, and the conversion does not fail.
C16_CodesNormalized ==
    fnOut.op = "from_wire" =>
        LET strokeTypeId == ReceivedLeaf.strokeTypeId[1]
            stepTypeId == ReceivedLeaf.stepTypeId[1]
        IN  /\ fnOut.value[1].ok
            /\ ~IsGroup(ConvertedLeaf)
            /\ ConvertedLeaf.stroke =
                  (IF strokeTypeId \in 1..7 THEN strokeTypeId ELSE FREESTYLE)
            /\ ConvertedLeaf.step_type =
                  (IF stepTypeId \in 1..5 THEN stepTypeId ELSE INTERVAL)

\* A leaf received inside a repeat group with stroke code 9 and step code 0
\* was converted to a FREESTYLE INTERVAL step
C16_Witness ==
    /\ fnOut.op = "from_wire"
    /\ IsGroup(fnOut.value[1].workout.steps[1])
    /\ ReceivedLeaf.strokeTypeId = Some(9)
    /\ ReceivedLeaf.stepTypeId = Some(0)
    /\ ConvertedLeaf.stroke = FREESTYLE
    /\ ConvertedLeaf.step_type = INTERVAL

\* C18: replace_id(old_id, new_id) when no record exists at old_id is a no-op
\* that returns failure: nothing is created at new_id, a record already stored
\* at new_id is not modified, and the store is unchanged.
C18_ReplaceMissingNoop ==
    (req.op = "replace" /\ ~Exists(store0, req.id))
       => /\ store = store0
          /\ pc \in {"replace_load", "idle"}
          /\ (pc = "idle" => result.code = "ReplaceFalse")

\* replace_id returned for an old_id with no record and a new_id that holds one
C18_Witness ==
    /\ req.op = "replace" /\ pc = "idle"
    /\ ~Exists(store0, req.id)
    /\ Exists(store, req.new)
    /\ result.code = "ReplaceFalse"

\* A replace_id(old_id, new_id) has loaded the record at old_id; it is
\* running, has returned or was interrupted, and no later request has started
ReplaceLoaded == req.op = "replace" /\ req.wk # None

\* The record stored at key k carries the content replace_id loaded
HoldsContent(k) ==
    /\ Exists(store, k)
    /\ store[k].name = req.wk[1].name
    /\ store[k].pool_length = req.wk[1].pool_length
    /\ store[k].steps = req.wk[1].steps

\* The run is between the write of the new file and the unlink of the old one,
\* or was interrupted there
BetweenSteps == pc = "replace_unlink" \/ result.code = "InterruptedBeforeUnlink"

\* The store an uninterrupted replace_id(old_id, new_id) leaves
ReplaceCompleted ==
    [k \in (DOMAIN store0 \cup {req.new}) \ {req.id} |->
        IF k = req.new THEN [req.wk[1] EXCEPT !.id = req.new] ELSE store0[k]]

\* C19 as stated: at every point of replace_id's execution the content is
\* persisted under old_id or new_id, and between the two steps both records
\* exist, for all old_id and new_id.
C19_Original ==
    ReplaceLoaded =>
        /\ HoldsContent(req.id) \/ HoldsContent(req.new)
        /\ (BetweenSteps => Exists(store, req.id) /\ Exists(store, req.new))

\* C19 holds for ids that differ: replace_id(old_id, new_id) with
\* old_id # new_id is write-new then delete-old: at every point of its
\* execution, and after an interruption, the workout's content is persisted
\* under old_id or new_id; between the two steps both records exist; and a
\* delete of old_id that follows an interruption between the steps leaves
\* exactly the store an uninterrupted replace_id would have left.
C19_ReplaceNeverLoses ==
    /\ []((ReplaceLoaded /\ req.id # req.new) =>
            /\ HoldsContent(req.id) \/ HoldsContent(req.new)
            /\ (BetweenSteps => HoldsContent(req.id) /\ HoldsContent(req.new)))
    /\ [][(/\ ReplaceLoaded /\ req.id # req.new
           /\ result.code = "InterruptedBeforeUnlink"
           /\ req'.op = "delete" /\ req'.id = req.id)
             => store' = ReplaceCompleted]_vars

\* A replace_id between two different ids was interrupted between its two
\* steps: the record, with its steps, is stored under both ids
C19_Witness ==
    /\ ReplaceLoaded /\ req.id # req.new
    /\ pc = "idle" /\ result.code = "InterruptedBeforeUnlink"
    /\ req.wk[1].steps # <<>>
    /\ HoldsContent(req.id) /\ HoldsContent(req.new)
    /\ store[req.new].id = req.new

\* The step is one that checks the session: a status check, a sync, or a
\* remote call of an upload
ChecksSession ==
    \/ req'.op \in {"status", "sync"} /\ ops' = ops + 1
    \/ req.op = "upload" /\ pc \in {"upload", "delete_old"}

\* The step resumed the session from the saved tokens
Resumed == ChecksSession /\ tokenFile /\ req'.resumeOk

\* The step is a login the platform accepted
LoggedIn == req'.op = "login" /\ ops' = ops + 1 /\ result'.code = "Authenticated"

\* C20: the process-wide session follows its lifecycle in every sequence of
\* login, logout, status-check and client-using operations: it is absent at
\* startup; it becomes present only through a successful login or a
\* successful resume from the saved session (by a status check or an operation
\* that needs the client); a status check that finds the held session invalid
\* drops it, so that it is absent afterwards unless that resume succeeds; and
\* logout makes it absent.
C20_SessionLifecycle ==
    /\ client = "absent"
    /\ [][(client = "absent" /\ client' = "present") => (LoggedIn \/ Resumed)]_vars
    /\ [][(/\ client = "present"
           /\ req'.op \in {"status", "sync"} /\ ops' = ops + 1
           /\ ~req'.heldValid)
             => /\ (client' = "present" => Resumed)
                /\ (client' = "absent" => result'.code = "NotAuthenticated")]_vars
    /\ [][(req'.op = "logout" /\ ops' = ops + 1) => client' = "absent"]_vars

\* A status check found the held session invalid and the saved tokens no
\* longer logging in: the session is dropped
C20_Witness ==
    /\ req.op = "status"
    /\ ~req.heldValid /\ ~req.resumeOk
    /\ tokenFile
    /\ client = "absent"
    /\ result.code = "NotAuthenticated"

\* Every repeat group the builder holds has an iteration count of at least 1
RepeatsPositive ==
    \A i \in 1..Len(self.steps) :
        self.steps[i].numberOfIterations # None
           => self.steps[i].numberOfIterations[1] >= 1

\* C21: for every builder B, builder_to_workout(id, B) succeeds and yields the
\* same steps (kind, stroke, distance, duration, zone, iteration counts,
\* nesting, ids, equipment) as wire_to_workout applied to B.build(); a timed
\* rest gets distance 0 with its seconds as duration and a rest-until-button
\* step gets distance 0 and no duration.
C21_BuilderMatchesWire ==
    (outer = <<>> /\ RepeatsPositive) =>
        LET direct == builder_to_workout("t", self)
            via_wire == garmin_to_workout(build(self))
        IN  /\ direct.ok
            /\ via_wire.ok
            /\ direct.workout.steps = via_wire.workout.steps

\* The wire entry e was converted to the domain entry d: a repeat step to a
\* RepeatGroup with the wire iteration count (1 if absent) and the converted
\* children, down to the given depth
RECURSIVE ConvertedNested(_, _, _)
ConvertedNested(e, d, depth) ==
    IF e.stepTypeId = Some(REPEAT)
      THEN /\ IsGroup(d)
           /\ d.iterations = Get(e.numberOfIterations, 1)
           /\ Len(d.steps) = Len(e.workoutSteps)
           /\ depth > 0 =>
                \A i \in 1..Len(e.workoutSteps) :
                    ConvertedNested(e.workoutSteps[i], d.steps[i], depth - 1)
      ELSE ~IsGroup(d)

\* C22: wire_to_workout applied to a wire workout whose repeat step contains
\* another repeat step yields a RepeatGroup whose child at that position is
\* itself a RepeatGroup with the wire iteration count (1 if the field is
\* absent) and the converted children, at any nesting depth, without error.
C22_NestedRepeats ==
    fnOut.op = "from_nested" =>
        /\ fnOut.value[1].ok
        /\ ConvertedNested(fnMid[1].workoutSegments[1].workoutSteps[1],
                           fnOut.value[1].workout.steps[1], 3)

\* The leaf steps of a workout, those inside its repeat groups included
LeafStepsOf(w) ==
    {w.steps[i] : i \in {j \in 1..Len(w.steps) : ~IsGroup(w.steps[j])}}
    \cup UNION {Range(w.steps[i].steps) :
                  i \in {j \in 1..Len(w.steps) : IsGroup(w.steps[j])}}

\* C23: for every step of every workout held by the record store, after any
\* sequence of create, update, sync and template seeding, the duration field
\* is populated only if the step is a REST step (a timed rest): no non-REST
\* step carries a duration.
C23_DurationOnlyOnRest ==
    \A k \in DOMAIN store :
        \A s \in LeafStepsOf(store[k]) :
            s.duration_seconds # None => s.step_type = REST

\* C24: in every reachable store state, after any sequence of create, update,
\* sync, replace_id and template seeding, every persisted workout has a name
\* of at most 80 characters and can be read back by get; an update supplying
\* a longer name is rejected as a ValidationError and leaves the record
\* unchanged.
C24_StoredNamesValid ==
    /\ \A k \in DOMAIN store :
         /\ ValidName(store[k].name)
         /\ GetWorkoutOutcome(store, k) = "ok"
    /\ (req.op = "update" /\ result.code = "Updated") => ValidName(store[req.id].name)

\* The ids of a list of entries in pre-order: each group's id, then its
\* children's, then what follows the group
RECURSIVE PreOrderIds(_)
PreOrderIds(entries) ==
    IF entries = <<>> THEN <<>>
    ELSE <<Head(entries).id>>
         \o (IF IsGroup(Head(entries)) THEN PreOrderIds(Head(entries).steps) ELSE <<>>)
         \o PreOrderIds(Tail(entries))

\* A workout wire_to_workout has produced
Produced ==
    /\ fnOut.op \in {"round_trip", "from_wire"}
    /\ fnOut.value[1].ok

\* C25: wire_to_workout assigns the ids "step-<n>" from one counter shared by
\* the whole walk, in pre-order: in every workout it produces the ids of all
\* steps and groups, read in pre-order, are step-1, step-2, ..., step-N with N
\* the total number of entries, hence pairwise distinct.
C25_PreOrderIds ==
    Produced =>
        LET ids == PreOrderIds(fnOut.value[1].workout.steps)
        IN  ids = [n \in 1..Len(ids) |-> StepId(n)]

\* A produced workout with a group of two steps followed by a step: the step
\* after the group is step-4
C25_Witness ==
    /\ Produced
    /\ Len(fnOut.value[1].workout.steps) = 2
    /\ IsGroup(fnOut.value[1].workout.steps[1])
    /\ Len(fnOut.value[1].workout.steps[1].steps) = 2
    /\ fnOut.value[1].workout.steps[2].id = StepId(4)

\* C26: wire_to_workout reads a leaf step's end condition by key: "distance"
\* gives distance = the end-condition value and no duration; "time" or
\* "fixed.rest" gives duration = the end-condition value and distance 0; any
\* other key, with or without a value, gives distance 0 and no duration; the
\* conversion succeeds in each case.
C26_EndConditionByKey ==
    fnOut.op = "from_wire" =>
        LET key == ReceivedLeaf.conditionTypeKey[1]
            value == ReceivedLeaf.endConditionValue
        IN  /\ fnOut.value[1].ok
            /\ IF key = "distance"
                 THEN /\ ConvertedLeaf.distance_m = value[1]
                      /\ ConvertedLeaf.duration_seconds = None
               ELSE IF key \in {"time", "fixed.rest"}
                 THEN /\ ConvertedLeaf.duration_seconds = value
                      /\ ConvertedLeaf.distance_m = 0
               ELSE /\ ConvertedLeaf.distance_m = 0
                    /\ ConvertedLeaf.duration_seconds = None

\* A leaf step of kind INTERVAL timed by "time" was converted: its duration
\* is the value and its distance 0
C26_Witness ==
    /\ fnOut.op = "from_wire"
    /\ ReceivedLeaf.conditionTypeKey = Some("time")
    /\ ConvertedLeaf.duration_seconds = Some(50)
    /\ ConvertedLeaf.distance_m = 0
    /\ ConvertedLeaf.step_type = INTERVAL

\* C27: replace_id never loses the workout it renames: whenever
\* replace_id(old_id, new_id) returns success, get(new_id) returns that
\* workout afterwards, for every pair of ids, old_id = new_id included.
C27_ReplaceKeepsWorkout ==
    ReplaceReturnedTrue =>
        /\ GetWorkoutOutcome(store, req.new) = "ok"
        /\ store[req.new] = [store0[req.id] EXCEPT !.id = req.new]

\* C28: the upload flow never destroys a local workout other than re-keying
\* the uploaded one: for every id the remote returns (the fallback "unknown"
\* and the key of another local record included), a successful upload leaves
\* the number of local records unchanged and every record other than the
\* uploaded one under its key with its content.
C28_UploadKeepsOtherRecords ==
    (req.op = "upload" /\ pc = "idle" /\ result.code = "UploadOk") =>
        /\ Cardinality(DOMAIN store) = Cardinality(DOMAIN store0)
        /\ \A k \in DOMAIN store0 \ {req.id} :
             Exists(store, k) /\ store[k] = store0[k]

\* C29: the upload flow issues a remote delete only for an id the remote
\* platform assigned; uploading a workout whose local id was generated locally
\* (a fresh id from create or a template name from seeding) never sends a
\* remote delete for that id.
C29_DeleteOnlyRemoteIds ==
    \A i \in DeleteCalls : calls[i].id \in {Str(n) : n \in RemoteIds}

\* C30: after logout the session stays absent until a login succeeds: no
\* status check, upload, sync or remote delete served after a logout and
\* before the next login that answers "authenticated" re-establishes a session
\* or reaches the remote platform.
C30_AbsentAfterLogout ==
    (req.afterLogout /\ ~(req.op = "login" /\ result.code = "Authenticated"))
       => /\ client = "absent"
          /\ calls = <<>>

====
